---- MODULE Spec2Model ----
(***************************************************************************)
(* A model of src/src/store.js: one svelte writable (STORE) holding the    *)
(* application state, the draft-editing action functions, dispatch, and    *)
(* the composite routine requestNewNumbersFromAPI.                         *)
(*                                                                         *)
(* JavaScript runs every handler to completion, so one handler is one      *)
(* action.  The only suspension point is the await of the 1000 ms timer    *)
(* inside requestNewNumbersFromAPI: the part of the routine before the     *)
(* await runs inside the dispatch that starts it, the part after it runs   *)
(* when the timer fires.                                                   *)
(*                                                                         *)
(* Numbers produced by Math.random() are modelled in hundredths: an        *)
(* outcome u stands for the float u / 100.                                 *)
(***************************************************************************)
EXTENDS Integers, Sequences, FiniteSets, TLC

VARIABLES
    value,        \* the value held by STORE (store.js:19)
    subscribers,  \* callbacks subscribed to STORE, in subscription order
    pending,      \* requestNewNumbersFromAPI routines suspended at the await
    notified,     \* callback invocations made by the last handler, in order
    last,         \* the action last dispatched or resumed, the value before it,
                  \* whether it threw, what the object STORE held before
                  \* its last update holds now, and what the state accessor
                  \* returns to the routine at its first and last statement,
                  \* and the urls it made App.svelte push to the history;
                  \* at the start, the mounting of App.svelte stands for it
    ndispatched,  \* number of dispatch calls made from outside so far
    nsubscribed,  \* number of subscribe calls made so far
    views         \* the values the derived stores serverParams and queryString
                  \* hold (store.js:96-105)

vars == <<value, subscribers, pending, notified, last, ndispatched, nsubscribed,
          views>>

(* ------------------------------ bounds -------------------------------- *)

\* dispatch calls made from outside the store (UI events) in one run
MaxDispatches == 3

\* ids 0..MaxIdArg are offered to randomizeNumber and deleteRandomNumber
MaxIdArg == 1

\* subscribe calls made in one run
MaxSubscriptions == 2

IdArgs == 0..MaxIdArg

\* outcomes of one Math.random() call, in hundredths (0.25 and 0.75)
MathRandom == {25, 75}

\* values callers hand to changeChannel and to changeOS, which are exported
\* and check nothing: for each, one value of the catalog and one outside it
ChannelArgs == {"beta", "esr"}

OsArgs == {"linux", "bsd"}

(* --------------------------- store.js:4-16 ---------------------------- *)

options ==
    [product |-> <<"firefox", "fenix">>,
     channel |-> <<"release", "beta", "nightly">>,
     os |-> <<"mac", "windows", "linux">>,
     randomNumbers |-> <<>>,
     isWaiting |-> FALSE]

\* initStore has no isWaiting field
initStore == [channel |-> "release", os |-> "mac", randomNumbers |-> <<>>]

Range(seq) == {seq[i] : i \in 1..Len(seq)}

\* draft.k = v on a draft that may not have the field k yet
SetField(draft, k, v) ==
    [f \in (DOMAIN draft) \cup {k} |-> IF f = k THEN v ELSE draft[f]]

\* the value of $STORE.isWaiting as the {#if} of App.svelte sees it:
\* a missing field reads as undefined, which is falsy
isWaiting(state) == "isWaiting" \in DOMAIN state /\ state.isWaiting

(* --------------------------- action functions ------------------------- *)

MaxOf(S) == CHOOSE m \in S : \A x \in S : x <= m

\* faulty variant: the position in the list taken for the id
getNextIdLength(arr) == Len(arr)

\* faulty variant: the + 1 forgotten
getNextIdNoIncrement(arr) ==
    IF Len(arr) = 0 THEN 0
    ELSE MaxOf({arr[i].id : i \in 1..Len(arr)} \cup {0})

getNextId(arr) ==
    IF Len(arr) = 0 THEN 0
    ELSE MaxOf({arr[i].id : i \in 1..Len(arr)} \cup {0}) + 1

\* faulty variant: the value is written to the os field
changeChannelWritesOs(ch, draft) == [draft EXCEPT !.os = ch]

changeChannel(ch, draft) == [draft EXCEPT !.channel = ch]

changeOS(os, draft) == [draft EXCEPT !.os = os]

\* Math.random() * 100, for the outcome u of Math.random()
randomNumber(u) == u * 100

\* faulty variant: the whole state is put back to its initial value
clearRandomNumbersResetsAll(draft) == initStore

clearRandomNumbers(draft) == [draft EXCEPT !.randomNumbers = <<>>]

\* faulty variant: unshift for push, the new entry is put first
addRandomNumberFirst(u, draft) ==
    [draft EXCEPT !.randomNumbers =
        <<[value |-> randomNumber(u), id |-> getNextId(@)]>> \o @]

addRandomNumber(u, draft) ==
    [draft EXCEPT !.randomNumbers =
        Append(@, [value |-> randomNumber(u), id |-> getNextId(@)])]

\* Array.prototype.findIndex with r => r.id === id: 0-based, -1 when absent
findIndex(arr, id) ==
    IF \E i \in 1..Len(arr) : arr[i].id = id
    THEN (CHOOSE i \in 1..Len(arr) :
            arr[i].id = id /\ \A j \in 1..(i - 1) : arr[j].id # id) - 1
    ELSE -1

\* draft.randomNumbers[-1] is undefined, and assigning .value on it throws
randomizeNumberThrows(id, draft) == findIndex(draft.randomNumbers, id) = -1

\* faulty variant: the entry is taken out and pushed again with a new value
randomizeNumberMovesEntry(id, u, draft) ==
    [draft EXCEPT !.randomNumbers =
        Append(SelectSeq(@, LAMBDA r : r.id # id),
               [value |-> randomNumber(u), id |-> id])]

randomizeNumber(id, u, draft) ==
    LET ind == findIndex(draft.randomNumbers, id)
    IN  [draft EXCEPT !.randomNumbers[ind + 1].value = randomNumber(u)]

\* faulty variant: splice(id, 1), the id taken for a position
deleteRandomNumberByIndex(id, draft) ==
    [draft EXCEPT !.randomNumbers =
        [i \in 1..(Len(@) - (IF id < Len(@) THEN 1 ELSE 0)) |->
            IF i <= id THEN @[i] ELSE @[i + 1]]]

deleteRandomNumber(id, draft) ==
    [draft EXCEPT !.randomNumbers = SelectSeq(@, LAMBDA r : r.id # id)]

setAPIWaitingStatus(tf, draft) == SetField(draft, "isWaiting", tf)

(* ------------------------------ immer --------------------------------- *)

\* whether the draft editor func throws when run on draft
recipeThrows(func, draft) ==
    func.type = "randomizeNumber" /\ randomizeNumberThrows(func.id, draft)

\* the draft after the editor func has run on it
recipe(func, draft) ==
    CASE func.type = "changeChannel" -> changeChannel(func.ch, draft)
      [] func.type = "changeOS" -> changeOS(func.os, draft)
      [] func.type = "clearRandomNumbers" -> clearRandomNumbers(draft)
      [] func.type = "addRandomNumber" -> addRandomNumber(func.u, draft)
      [] func.type = "randomizeNumber" ->
            randomizeNumber(func.id, func.u, draft)
      [] func.type = "deleteRandomNumber" -> deleteRandomNumber(func.id, draft)
      [] func.type = "setAPIWaitingStatus" ->
            setAPIWaitingStatus(func.tf, draft)

\* faulty variant: every draft made from the state the module started with
produceFromInit(state, func) == recipe(func, initStore)

\* produce(state, func): a new value, state itself is not edited
produce(state, func) == recipe(func, state)

\* faulty variant: func edits the state object itself, there is no draft
stateAfterProduceEdited(state, func) == recipe(func, state)

\* what the object state holds once produce(state, func) has returned
stateAfterProduce(state, func) == state

(* --------------------------- derived views ---------------------------- *)

\* $st => ({os: $st.os, channel: $st.channel})
serverParams(st) == [os |-> st.os, channel |-> st.channel]

\* Object.keys of the object serverParams returns: insertion order
serverParamsKeys == <<"os", "channel">>

\* the UTF-16 code units of a key, which Array.prototype.sort compares
CodeUnits(k) ==
    CASE k = "os" -> <<111, 115>>
      [] k = "channel" -> <<99, 104, 97, 110, 110, 101, 108>>

\* a sorts before b: the comparison sort() makes without a comparator
RECURSIVE CodesBefore(_, _)
CodesBefore(a, b) ==
    IF b = <<>> THEN FALSE
    ELSE IF a = <<>> THEN TRUE
    ELSE IF Head(a) # Head(b) THEN Head(a) < Head(b)
    ELSE CodesBefore(Tail(a), Tail(b))

\* keys with k put at its place, keys being sorted
RECURSIVE insertSorted(_, _)
insertSorted(k, keys) ==
    IF keys = <<>> THEN <<k>>
    ELSE IF CodesBefore(CodeUnits(k), CodeUnits(Head(keys))) THEN <<k>> \o keys
    ELSE <<Head(keys)>> \o insertSorted(k, Tail(keys))

\* faulty variant: the keys left in the order Object.keys gives them
sortOmitted(keys) == keys

\* Array.prototype.sort() of an array of keys
RECURSIVE sort(_)
sort(keys) ==
    IF keys = <<>> THEN <<>> ELSE insertSorted(Head(keys), sort(Tail(keys)))

\* Array.prototype.join(sep)
RECURSIVE join(_, _)
join(parts, sep) ==
    IF parts = <<>> THEN ""
    ELSE IF Len(parts) = 1 THEN parts[1]
    ELSE parts[1] \o sep \o join(Tail(parts), sep)

\* $params => keys.map(k => `${k}=${$params[k]}`).join('&')
queryString(params) ==
    LET keys == sort(serverParamsKeys)
    IN  join([i \in 1..Len(keys) |-> keys[i] \o "=" \o params[keys[i]]], "&")

\* the derived stores recompute when STORE is set
derive(state) ==
    [serverParams |-> serverParams(state),
     queryString |-> queryString(serverParams(state))]

(* --------------------------- App.svelte:12-19 ------------------------- *)

\* faulty variant: a store tells its subscribers of every value it is set to
safe_not_equal_always(a, b) == TRUE

\* safe_not_equal(a, b) of svelte for two strings: a set call of the
\* queryString store goes on to its subscribers when this holds
safe_not_equal(a, b) == a # b

\* updateQueryString(value): pushState exists, and is called with the new
\* url; of the url, the part after the path is kept
updateQueryString(urls, q) == Append(urls, "?" \o q)

\* STORE has been set and the derived stores recompute: serverParams makes
\* a new object, of which its subscriber queryString is told; queryString is
\* set to its new string q, and when that goes on to its subscribers,
\* $: updateQueryString($queryString) runs
mirror(st, q) ==
    IF safe_not_equal(st.views.queryString, q)
    THEN updateQueryString(st.urls, q)
    ELSE st.urls

(* ------------------------- svelte writable ---------------------------- *)

\* A store in the middle of a handler: st.value is the value of STORE,
\* st.subscribers the subscribed callbacks, st.queue the subscriber_queue
\* of svelte/store, st.notified the callback invocations so far, st.pending
\* the suspended routines, st.threw whether an exception is propagating,
\* st.views the values of the derived stores, st.urls the urls pushed to the
\* browser history so far.

\* step(x), x being computed first and once: the statements of a handler
\* run one after the other
Then(x, step(_)) == CHOOSE r \in {step(s) : s \in {x}} : TRUE

\* value = new_value of writable's set, with what the derived stores and
\* App.svelte make of the new value
assign(st, new_value) ==
    Then(derive(new_value),
         LAMBDA d : [st EXCEPT !.value = new_value, !.views = d,
                               !.urls = mirror(st, d.queryString)])

\* The callback named Reactor dispatches from inside its notification: told
\* of a state with the beta channel on linux, it dispatches changeOS('mac').
\* The callbacks of the repository's components dispatch nothing.
Reactor == 0

reacts(state) == state.channel = "beta" /\ state.os = "linux"

reaction == [type |-> "changeOS", os |-> "mac"]

RECURSIVE dispatch(_, _)

\* the callback entry.to is called with entry.state
run(st, entry) ==
    IF entry.to = Reactor /\ reacts(entry.state)
    THEN dispatch([st EXCEPT !.notified = Append(@, entry)], reaction)
    ELSE [st EXCEPT !.notified = Append(@, entry)]

\* the callbacks of entries are called from the i-th on
RECURSIVE runAll(_, _, _)
runAll(st, entries, i) ==
    IF i > Len(entries) THEN st
    ELSE Then(run(st, entries[i]), LAMBDA s : runAll(s, entries, i + 1))

\* the loop over subscriber_queue of the set call that found it empty: it
\* also runs what the set calls made by callbacks have added to the queue
RECURSIVE runQueue(_, _)
runQueue(st, i) ==
    IF i > Len(st.queue) THEN [st EXCEPT !.queue = <<>>]
    ELSE Then(run(st, st.queue[i]), LAMBDA s : runQueue(s, i + 1))

\* faulty variant: subscribers run last-subscribed first
setReversed(st, new_value) ==
    Then([assign(st, new_value) EXCEPT
            !.queue = @ \o [i \in 1..Len(st.subscribers) |->
                [to |-> st.subscribers[Len(st.subscribers) + 1 - i],
                 state |-> new_value]]],
         LAMBDA s : IF st.queue = <<>> THEN runQueue(s, 1) ELSE s)

\* faulty variant: no subscriber_queue, every set call runs the subscribers
\* itself, with the value it was given
setWithoutQueue(st, new_value) ==
    runAll(assign(st, new_value),
           [i \in 1..Len(st.subscribers) |->
               [to |-> st.subscribers[i], state |-> new_value]], 1)

\* set(new_value): safe_not_equal is true of any object, so every set
\* stores the value and queues every subscriber with it, in subscription
\* order; the set call that found the queue empty runs it.  The derived
\* stores are subscribed through the component that shows them.
set(st, new_value) ==
    Then([assign(st, new_value) EXCEPT
            !.queue = @ \o [i \in 1..Len(st.subscribers) |->
                [to |-> st.subscribers[i], state |-> new_value]]],
         LAMBDA s : IF st.queue = <<>> THEN runQueue(s, 1) ELSE s)

\* faulty variant: the subscribers are told of an update whose editor threw
updateNotifiesFailure(st, func) ==
    IF recipeThrows(func, st.value)
    THEN [set(st, st.value) EXCEPT !.threw = TRUE]
    ELSE set(st, produce(st.value, func))

\* STORE.update(state => produce(state, func)): the editor runs before set,
\* so when it throws nothing is stored and nobody is notified
update(st, func) ==
    IF recipeThrows(func, st.value)
    THEN [st EXCEPT !.threw = TRUE]
    ELSE Then(produce(st.value, func),
              LAMBDA new_value :
                set([st EXCEPT !.old = stateAfterProduce(st.value, func)],
                    new_value))

(* ------------------------------ dispatch ------------------------------ *)

\* get(STORE) of svelte/store: subscribes, takes the value the callback is
\* called with, and unsubscribes
get(st) == st.value

\* faulty variant: the accessor hands out the value the store was made with
getStateInitial(st) == initStore

\* () => get(STORE), the accessor dispatch hands to an async function
getState(st) == get(st)

\* func.constructor.name === 'AsyncFunction'
isAsyncFunction(func) == func.type = "requestNewNumbersFromAPI"

\* faulty variant: an atomic action is held back while a routine is suspended
dispatchAtomicHeldBack(st, func) ==
    IF st.threw \/ st.pending > 0 THEN st ELSE update(st, func)

\* an atomic dispatch; a statement after a throw is not reached
dispatchAtomic(st, func) == IF st.threw THEN st ELSE update(st, func)

\* faulty variant: the list is not cleared before waiting
requestStartNoClear(st) ==
    [update(st, [type |-> "setAPIWaitingStatus", tf |-> TRUE])
        EXCEPT !.pending = @ + 1]

\* requestNewNumbersFromAPI up to its await (store.js:84-87)
requestStart(st) ==
    LET s1 == dispatchAtomic(st, [type |-> "clearRandomNumbers"])
        s2 == dispatchAtomic(s1, [type |-> "setAPIWaitingStatus", tf |-> TRUE])
    IN  [s2 EXCEPT !.pending = @ + 1]

dispatch(st, func) ==
    IF isAsyncFunction(func) THEN requestStart(st) ELSE dispatchAtomic(st, func)

(* ------------------------------ connect ------------------------------ *)

\* func(...args): what the action creator func returns for the argument list
\* args; u is the outcome of the Math.random() call its editor will make
apply(func, args, u) ==
    CASE func = "addRandomNumber" -> [type |-> func, u |-> u]
      [] func = "randomizeNumber" -> [type |-> func, id |-> args[1], u |-> u]
      [] func = "deleteRandomNumber" -> [type |-> func, id |-> args[1]]
      [] func = "requestNewNumbersFromAPI" -> [type |-> func]

\* faulty variant: the action function is made and not dispatched
connectWithoutDispatch(st, func, args, u) == st

\* connect(func)(...args), the function connect returns being called
connect(st, func, args, u) == dispatch(st, apply(func, args, u))

(* ------------------------------ routine ------------------------------- *)

\* number of addRandomNumber dispatches the routine makes (new Array(10))
NumRequested == 10

\* the dispatches of the map callback, one after the other
RECURSIVE addAll(_, _)
addAll(st, us) ==
    IF us = <<>> THEN st
    ELSE Then(dispatch(st, [type |-> "addRandomNumber", u |-> Head(us)]),
              LAMBDA s : addAll(s, Tail(us)))

\* faulty variant: the status flag is not turned off
requestResumeStillWaiting(st, us) == addAll(st, us)

\* requestNewNumbersFromAPI after its await (store.js:89-91); us are the
\* outcomes of its Math.random() calls
requestResume(st, us) ==
    Then(addAll(st, us),
         LAMBDA s : dispatch(s, [type |-> "setAPIWaitingStatus", tf |-> FALSE]))

(* ------------------------------ actions ------------------------------- *)

\* runs of NumRequested outcomes of Math.random(): constant and alternating
RandomRuns ==
    {[i \in 1..NumRequested |-> u] : u \in MathRandom}
        \cup {[i \in 1..NumRequested |-> IF i % 2 = 1 THEN 25 ELSE 75]}

Begin == [value |-> value, notified |-> <<>>, pending |-> pending,
          threw |-> FALSE, views |-> views, old |-> value,
          subscribers |-> subscribers, queue |-> <<>>, urls |-> <<>>]

\* what the accessor returns to an async function func that calls it as its
\* first statement and again as its last one before it suspends, st being
\* the store at that point; an atomic func is not handed the accessor
got(st, func) ==
    IF isAsyncFunction(func) THEN <<getState(Begin), getState(st)>> ELSE <<>>

\* dispatch(func) is called from outside the store and returns or throws
Dispatch(func) ==
    \E st \in {dispatch(Begin, func)} :
        /\ value' = st.value
        /\ notified' = st.notified
        /\ pending' = st.pending
        /\ last' = [func |-> func, pre |-> value, threw |-> st.threw,
                    old |-> st.old, got |-> got(st, func), urls |-> st.urls]
        /\ views' = st.views
        /\ ndispatched' = ndispatched + 1
        /\ UNCHANGED <<subscribers, nsubscribed>>

\* a function made by connect(func) is called with args from outside the store
Connected(func, args, u) ==
    \E st \in {connect(Begin, func, args, u)} :
        /\ value' = st.value
        /\ notified' = st.notified
        /\ pending' = st.pending
        /\ last' = [func |-> apply(func, args, u), pre |-> value,
                    threw |-> st.threw, old |-> st.old,
                    got |-> got(st, apply(func, args, u)), urls |-> st.urls]
        /\ views' = st.views
        /\ ndispatched' = ndispatched + 1
        /\ UNCHANGED <<subscribers, nsubscribed>>

ChangeChannel ==
    /\ ndispatched < MaxDispatches
    /\ \E ch \in ChannelArgs : Dispatch([type |-> "changeChannel", ch |-> ch])

ChangeOS ==
    /\ ndispatched < MaxDispatches
    /\ \E os \in OsArgs : Dispatch([type |-> "changeOS", os |-> os])

ClearRandomNumbers ==
    /\ ndispatched < MaxDispatches
    /\ Dispatch([type |-> "clearRandomNumbers"])

AddRandomNumber ==
    /\ ndispatched < MaxDispatches
    /\ \E u \in MathRandom : Connected("addRandomNumber", <<>>, u)

RandomizeNumber ==
    /\ ndispatched < MaxDispatches
    /\ \E id \in IdArgs, u \in MathRandom :
        Connected("randomizeNumber", <<id>>, u)

DeleteRandomNumber ==
    /\ ndispatched < MaxDispatches
    /\ \E id \in IdArgs : Connected("deleteRandomNumber", <<id>>, 0)

SetAPIWaitingStatus ==
    /\ ndispatched < MaxDispatches
    /\ \E tf \in BOOLEAN : Dispatch([type |-> "setAPIWaitingStatus", tf |-> tf])

\* requestFromAPI = connect(requestNewNumbersFromAPI) of App.svelte is called
RequestNewNumbersFromAPI ==
    /\ ndispatched < MaxDispatches
    /\ Connected("requestNewNumbersFromAPI", <<>>, 0)

\* the timer of the oldest suspended routine fires and the routine resumes
TimerFires ==
    /\ pending > 0
    /\ \E us \in RandomRuns :
        \E st \in {requestResume([Begin EXCEPT !.pending = @ - 1], us)} :
            /\ value' = st.value
            /\ notified' = st.notified
            /\ pending' = st.pending
            /\ last' = [func |-> [type |-> "resume", us |-> us],
                        pre |-> value, threw |-> st.threw, old |-> st.old,
                        got |-> <<getState(Begin), getState(st)>>,
                        urls |-> st.urls]
            /\ views' = st.views
    /\ UNCHANGED <<subscribers, ndispatched, nsubscribed>>

\* faulty variant: the new callback is called with the value the store started with
SubscribeInitial ==
    /\ nsubscribed < MaxSubscriptions
    /\ nsubscribed' = nsubscribed + 1
    /\ subscribers' = Append(subscribers, nsubscribed')
    /\ notified' = <<[to |-> nsubscribed', state |-> initStore]>>
    /\ UNCHANGED <<value, pending, last, ndispatched, views>>

\* STORE.subscribe(run): run is added last and called with the current value.
\* The callback of the n-th subscribe call is named n.
Subscribe ==
    /\ nsubscribed < MaxSubscriptions
    /\ nsubscribed' = nsubscribed + 1
    /\ subscribers' = Append(subscribers, nsubscribed')
    /\ notified' = <<[to |-> nsubscribed', state |-> value]>>
    /\ UNCHANGED <<value, pending, last, ndispatched, views>>

\* STORE.subscribe is called with the callback named Reactor: added last, it
\* is called with the current value, and dispatches if it reacts to it
SubscribeReactor ==
    /\ Reactor \notin Range(subscribers)
    /\ \E st \in {run([Begin EXCEPT !.subscribers = Append(@, Reactor)],
                       [to |-> Reactor, state |-> value])} :
        /\ subscribers' = st.subscribers
        /\ value' = st.value
        /\ notified' = st.notified
        /\ views' = st.views
        /\ last' = IF reacts(value)
                   THEN [func |-> reaction, pre |-> value, threw |-> st.threw,
                         old |-> st.old, got |-> <<>>, urls |-> st.urls]
                   ELSE last
    /\ UNCHANGED <<pending, ndispatched, nsubscribed>>

\* the function a subscribe call returned is called
Unsubscribe ==
    \E s \in Range(subscribers) :
        /\ subscribers' = SelectSeq(subscribers, LAMBDA x : x # s)
        /\ notified' = <<>>
        /\ UNCHANGED <<value, pending, last, ndispatched, nsubscribed, views>>

Init ==
    /\ value = initStore
    /\ subscribers = <<>>
    /\ pending = 0
    /\ notified = <<>>
    /\ last = [func |-> [type |-> "init"], pre |-> initStore, threw |-> FALSE,
               old |-> initStore, got |-> <<>>,
               urls |-> updateQueryString(<<>>, derive(initStore).queryString)]
    /\ ndispatched = 0
    /\ nsubscribed = 0
    /\ views = derive(initStore)

Next ==
    \/ ChangeChannel
    \/ ChangeOS
    \/ ClearRandomNumbers
    \/ AddRandomNumber
    \/ RandomizeNumber
    \/ DeleteRandomNumber
    \/ SetAPIWaitingStatus
    \/ RequestNewNumbersFromAPI
    \/ TimerFires
    \/ Subscribe
    \/ Unsubscribe

Spec == Init /\ [][Next]_vars

\* The dispatches App.svelte and its components make: setAPIWaitingStatus is
\* dispatched by requestNewNumbersFromAPI routines only.  Subscriptions are
\* left out: subscribe and its unsubscribe touch the subscriber list alone.
NextRoutinesOnly ==
    \/ ChangeChannel
    \/ ChangeOS
    \/ ClearRandomNumbers
    \/ AddRandomNumber
    \/ RandomizeNumber
    \/ DeleteRandomNumber
    \/ RequestNewNumbersFromAPI
    \/ TimerFires

\* setTimeout(resolve, 1000) calls resolve: a suspended routine resumes
SpecRoutinesOnly ==
    Init /\ [][NextRoutinesOnly]_vars /\ WF_vars(TimerFires)

\* The atomic dispatches, with a component whose callback dispatches when
\* it is notified
NextReentrant ==
    \/ ChangeChannel
    \/ ChangeOS
    \/ ClearRandomNumbers
    \/ AddRandomNumber
    \/ RandomizeNumber
    \/ DeleteRandomNumber
    \/ SetAPIWaitingStatus
    \/ Subscribe
    \/ SubscribeReactor
    \/ Unsubscribe

SpecReentrant == Init /\ [][NextReentrant]_vars

(* ------------------------------ properties ---------------------------- *)

Ids(arr) == {arr[i].id : i \in 1..Len(arr)}

IdsInOrder(arr) == [i \in 1..Len(arr) |-> arr[i].id]

\* the step is a dispatch call made from outside the store
DispatchStep == ndispatched' = ndispatched + 1

\* the step is a subscribe call
SubscribeStep == nsubscribed' = nsubscribed + 1

\* C1: right after dispatch(requestNewNumbersFromAPI()) has returned, and
\* until something else is dispatched or a routine resumes, isWaiting is true
\* and randomNumbers is empty, whatever the state before the dispatch was.
C1_RequestSetsWaitingAndClears ==
    last.func.type = "requestNewNumbersFromAPI" =>
        /\ ~last.threw
        /\ "isWaiting" \in DOMAIN value
        /\ value.isWaiting = TRUE
        /\ value.randomNumbers = <<>>

\* a routine was started in a state with entries and isWaiting not true
C1_Witness ==
    /\ last.func.type = "requestNewNumbersFromAPI"
    /\ last.pre.randomNumbers # <<>>
    /\ ~isWaiting(last.pre)
    /\ isWaiting(value)
    /\ value.randomNumbers = <<>>

\* C2: when a routine resumes and it is the only suspended one and nothing
\* was dispatched or resumed since the dispatch that started it, the state it
\* leaves has exactly 10 entries, with ids 0, 1, ..., 9 in list
\* order, and isWaiting is false.
C2_UndisturbedRoutineResult ==
    [][(/\ last.func.type = "requestNewNumbersFromAPI"
        /\ pending = 1
        /\ last'.func.type = "resume")
       => (/\ pending' = 0
           /\ IdsInOrder(value'.randomNumbers) = [i \in 1..NumRequested |-> i - 1]
           /\ "isWaiting" \in DOMAIN value'
           /\ value'.isWaiting = FALSE)]_vars

\* the only dispatch of the run started a routine, which has completed
C2_Witness ==
    /\ last.func.type = "resume"
    /\ ndispatched = 1
    /\ pending = 0
    /\ Len(value.randomNumbers) = NumRequested
    /\ ~isWaiting(value)

\* C3: dispatching addRandomNumber() appends exactly one entry, leaves the
\* entries that were there unchanged, and gives the new entry the id 0 when
\* the list was empty and 1 + the largest id in it otherwise.
C3_AddAppendsNextId ==
    last.func.type = "addRandomNumber" =>
        LET old == last.pre.randomNumbers
            new == value.randomNumbers
        IN  /\ ~last.threw
            /\ Len(new) = Len(old) + 1
            /\ SubSeq(new, 1, Len(old)) = old
            /\ new[Len(new)].id =
                 (IF old = <<>> THEN 0
                  ELSE 1 + (CHOOSE m \in Ids(old) : \A x \in Ids(old) : x <= m))

\* an entry was added to a list whose entry with id 0 had been deleted, so
\* the largest id and the length of the list differ
C3_Witness ==
    /\ last.func.type = "addRandomNumber"
    /\ last.pre.randomNumbers # <<>>
    /\ 0 \notin Ids(last.pre.randomNumbers)
    /\ value.randomNumbers[Len(value.randomNumbers)].id
         > Len(last.pre.randomNumbers)

\* C4: in every reachable state the ids of the entries of randomNumbers are
\* pairwise distinct non-negative integers.
C4_IdsDistinctNonNegative ==
    LET arr == value.randomNumbers
    IN  /\ \A i \in 1..Len(arr) : arr[i].id \in Nat
        /\ \A i, j \in 1..Len(arr) : arr[i].id = arr[j].id => i = j

\* two routines overlapped and both have added their entries
C4_Witness ==
    /\ last.func.type = "resume"
    /\ Len(last.pre.randomNumbers) >= NumRequested
    /\ Len(value.randomNumbers) >= 2 * NumRequested

\* C5 (as claimed): dispatching randomizeNumber(id) with an id no entry has
\* raises no error and leaves the state unchanged.
C5_AbsentIdIsSilentNoOp ==
    (/\ last.func.type = "randomizeNumber"
     /\ last.func.id \notin Ids(last.pre.randomNumbers))
    => (~last.threw /\ value = last.pre)

\* C6: dispatching deleteRandomNumber(id) raises no error and leaves the
\* entries whose id is not id, all of them and in their previous order; when
\* no entry has that id the list is unchanged.
C6_DeleteRemovesExactlyId ==
    last.func.type = "deleteRandomNumber" =>
        LET old == last.pre.randomNumbers
            new == value.randomNumbers
            id == last.func.id
            kept == {i \in 1..Len(old) : old[i].id # id}
        IN  /\ ~last.threw
            /\ Len(new) = Cardinality(kept)
            /\ \A i \in kept : new[Cardinality({j \in kept : j <= i})] = old[i]
            /\ (id \notin Ids(old) => new = old)

\* an entry that is not the first of several was deleted
C6_Witness ==
    /\ last.func.type = "deleteRandomNumber"
    /\ Len(last.pre.randomNumbers) >= 3
    /\ last.pre.randomNumbers[1].id # last.func.id
    /\ last.func.id \in Ids(last.pre.randomNumbers)
    /\ Len(value.randomNumbers) = Len(last.pre.randomNumbers) - 1

\* C7: when the draft editor of an atomic action fails during a dispatch,
\* the dispatch ends by throwing to its caller, the value of the store is
\* what it was before, and no subscriber has been called.
C7_FailedDispatchPublishesNothing ==
    [][(/\ DispatchStep
        /\ ~isAsyncFunction(last'.func)
        /\ recipeThrows(last'.func, value))
       => (/\ last'.threw
           /\ value' = value
           /\ notified' = <<>>)]_vars

\* a dispatch failed while callbacks were subscribed and entries existed
C7_Witness ==
    /\ last.threw
    /\ last.func.type = "randomizeNumber"
    /\ last.pre.randomNumbers # <<>>
    /\ subscribers # <<>>
    /\ notified = <<>>
    /\ value = last.pre

\* C8: changeOS(a) dispatched right after changeChannel(b), or changeChannel(b)
\* right after changeOS(a), leaves os = a and channel = b.
C8_NoLostUpdate ==
    [][(DispatchStep /\ ~last.threw) =>
         /\ (last.func.type = "changeOS" /\ last'.func.type = "changeChannel")
              => (value'.os = last.func.os /\ value'.channel = last'.func.ch)
         /\ (last.func.type = "changeChannel" /\ last'.func.type = "changeOS")
              => (value'.channel = last.func.ch /\ value'.os = last'.func.os)
      ]_vars

\* changeOS('linux') then changeChannel('beta'), the only dispatches of
\* the run, with two callbacks subscribed
C8_Witness ==
    /\ ndispatched = 2
    /\ last.func = [type |-> "changeChannel", ch |-> "beta"]
    /\ last.pre.os = "linux"
    /\ last.pre.channel = "release"
    /\ Len(subscribers) = 2
    /\ value.os = "linux"
    /\ value.channel = "beta"

\* C9: a subscribe call invokes the new callback once, with the value the
\* store holds at that moment, and invokes no other callback.
C9_SubscribeDeliversCurrent ==
    [][SubscribeStep =>
         /\ notified' = <<[to |-> subscribers'[Len(subscribers')],
                           state |-> value]>>
         /\ value' = value]_vars

\* a second callback subscribed after dispatches and received their result
C9_Witness ==
    /\ Len(subscribers) = 2
    /\ ndispatched >= 2
    /\ value # initStore
    /\ notified = <<[to |-> subscribers[2], state |-> value]>>

\* C10: when an atomic dispatch made from outside the store returns, every
\* subscribed callback has been invoked exactly once for it, with the new
\* value, in the order of subscription.
C10_AllNotifiedOnceInOrder ==
    [][(/\ DispatchStep
        /\ ~isAsyncFunction(last'.func)
        /\ ~last'.threw)
       => notified' = [i \in 1..Len(subscribers) |->
                          [to |-> subscribers[i], state |-> value']]]_vars

\* an atomic dispatch changed the value and reached two callbacks
C10_Witness ==
    /\ Len(subscribers) = 2
    /\ Len(notified) = 2
    /\ last.func.type = "addRandomNumber"
    /\ value # last.pre
    /\ notified[1].to = subscribers[1]
    /\ notified[2].to = subscribers[2]
    /\ notified[2].state = value

\* C11: in every reachable state the serverParams view is {os, channel} of
\* the current state and the queryString view is the string
\* "channel=<channel>&os=<os>" of the current state's channel and os.
C11_ViewsFollowState ==
    /\ views.serverParams = [os |-> value.os, channel |-> value.channel]
    /\ views.queryString = "channel=" \o value.channel \o "&os=" \o value.os

\* both selectors were changed, so the views were recomputed twice
C11_Witness ==
    /\ ndispatched >= 2
    /\ value.channel = "beta"
    /\ value.os = "linux"
    /\ views.queryString = "channel=beta&os=linux"

\* C12: a dispatch of requestNewNumbersFromAPI returns with the routine
\* suspended and the state changed by its two first sub-dispatches only; an
\* atomic action dispatched while a routine is suspended is applied at once;
\* and what the routine dispatches when it resumes is applied to the state
\* as it is then.
C12_CompositeRunsDetached ==
    /\ last.func.type = "requestNewNumbersFromAPI" =>
         /\ ~last.threw
         /\ pending >= 1
         /\ value = [f \in {"channel", "os", "randomNumbers", "isWaiting"} |->
                       CASE f = "randomNumbers" -> <<>>
                         [] f = "isWaiting" -> TRUE
                         [] OTHER -> last.pre[f]]
    /\ (pending >= 1 /\ ~last.threw) =>
         /\ last.func.type = "changeChannel" => value.channel = last.func.ch
         /\ last.func.type = "changeOS" => value.os = last.func.os
         /\ last.func.type = "addRandomNumber" =>
              Len(value.randomNumbers) = Len(last.pre.randomNumbers) + 1
         /\ last.func.type = "clearRandomNumbers" => value.randomNumbers = <<>>
    /\ last.func.type = "resume" =>
         LET old == last.pre.randomNumbers
         IN  /\ value.channel = last.pre.channel
             /\ value.os = last.pre.os
             /\ Len(value.randomNumbers) = Len(old) + NumRequested
             /\ SubSeq(value.randomNumbers, 1, Len(old)) = old
             /\ value.isWaiting = FALSE

\* the two dispatches of the run were a routine start and then, while the
\* routine was suspended, an addRandomNumber; the routine has resumed and
\* added its entries after that one
C12_Witness ==
    /\ ndispatched = 2
    /\ pending = 0
    /\ last.func.type = "resume"
    /\ Len(last.pre.randomNumbers) = 1
    /\ Len(value.randomNumbers) = NumRequested + 1

\* C13: when the timers fire and only routines dispatch setAPIWaitingStatus,
\* a suspended routine goes away only by resuming, and from some point on no
\* routine is suspended and isWaiting is false for good.
C13_WaitingEndsEventually ==
    /\ [][pending' < pending => last'.func.type = "resume"]_vars
    /\ <>[](pending = 0 /\ ~isWaiting(value))

\* the last suspended routine resumed and turned the flag off
C13_Witness ==
    /\ last.func.type = "resume"
    /\ isWaiting(last.pre)
    /\ ~isWaiting(value)
    /\ pending = 0
    /\ ndispatched = MaxDispatches

\* a step in which a function made by connect was called
ConnectStep ==
    /\ DispatchStep
    /\ last'.func.type \in {"addRandomNumber", "randomizeNumber",
                            "deleteRandomNumber", "requestNewNumbersFromAPI"}

\* C14: calling the function connect(f) returned with some arguments leaves
\* the store value, the derived views, the suspended routines and what each
\* subscriber was told exactly as dispatch(f(arguments)) called in the same
\* state would, and throws exactly when that call would.
C14_ConnectIsDispatch ==
    [][ConnectStep =>
        \E st \in {dispatch(Begin, last'.func)} :
            /\ value' = st.value
            /\ views' = st.views
            /\ pending' = st.pending
            /\ notified' = st.notified
            /\ last'.threw = st.threw]_vars

\* a connected composite action was called, then connected atomic ones: the
\* last, called with an id, deleted the one entry of the list
C14_Witness ==
    /\ pending = 1
    /\ last.func = [type |-> "deleteRandomNumber", id |-> 0]
    /\ Len(last.pre.randomNumbers) = 1
    /\ value.randomNumbers = <<>>

\* C15: in every reachable state, the initial one included, the store value
\* has the fields channel, os, randomNumbers and isWaiting, every entry of
\* randomNumbers has an id and a value, and isWaiting is a boolean.
C15_StateHasAllFields ==
    /\ {"channel", "os", "randomNumbers", "isWaiting"} \subseteq DOMAIN value
    /\ \A i \in 1..Len(value.randomNumbers) :
        DOMAIN value.randomNumbers[i] = {"id", "value"}
    /\ value.isWaiting \in BOOLEAN

\* C16: in every reachable state channel is one of the channel values of the
\* option catalog and os is one of its os values.
C16_ChannelOsInCatalog ==
    /\ value.channel \in Range(options.channel)
    /\ value.os \in Range(options.os)

\* C16, amended: channel and os are catalog values in the initial state, and
\* a step makes channel (os) a value outside the catalog only when it is a
\* changeChannel (changeOS) dispatch that was given that very value.
C16_OutsideCatalogOnlyAsGiven ==
    /\ initStore.channel \in Range(options.channel)
    /\ initStore.os \in Range(options.os)
    /\ [][/\ \/ value'.channel \in Range(options.channel)
             \/ value'.channel = value.channel
             \/ last'.func = [type |-> "changeChannel", ch |-> value'.channel]
          /\ \/ value'.os \in Range(options.os)
             \/ value'.os = value.os
             \/ last'.func = [type |-> "changeOS", os |-> value'.os]]_vars

\* changeChannel was dispatched with a value that is not in the catalog
C16_Witness ==
    /\ last.func = [type |-> "changeChannel", ch |-> "esr"]
    /\ last.pre.channel \in Range(options.channel)
    /\ value.channel = "esr"
    /\ value.os \in Range(options.os)

\* the states a and b have the same fields with the same values, the field
\* k left aside
SameExcept(a, b, k) ==
    /\ (DOMAIN a) \ {k} = (DOMAIN b) \ {k}
    /\ \A g \in (DOMAIN a) \ {k} : a[g] = b[g]

\* C17: a dispatched changeChannel(ch) sets channel to ch whatever ch is,
\* changeOS(os) sets os, setAPIWaitingStatus(flag) sets isWaiting to flag and
\* clearRandomNumbers() empties randomNumbers, each leaving every other field
\* as it was; addRandomNumber, randomizeNumber and deleteRandomNumber leave
\* channel, os and isWaiting as they were.
C17_SettersChangeOwnFieldOnly ==
    LET f == last.func
        pre == last.pre
    IN  /\ f.type = "changeChannel" =>
            value.channel = f.ch /\ SameExcept(pre, value, "channel")
        /\ f.type = "changeOS" =>
            value.os = f.os /\ SameExcept(pre, value, "os")
        /\ f.type = "setAPIWaitingStatus" =>
            /\ "isWaiting" \in DOMAIN value
            /\ value.isWaiting = f.tf
            /\ SameExcept(pre, value, "isWaiting")
        /\ f.type = "clearRandomNumbers" =>
            value.randomNumbers = <<>> /\ SameExcept(pre, value, "randomNumbers")
        /\ f.type \in {"addRandomNumber", "randomizeNumber",
                        "deleteRandomNumber"} =>
            SameExcept(pre, value, "randomNumbers")

\* changeChannel was given a value outside the catalog, in a state that had
\* an entry in the list and the isWaiting field
C17_Witness ==
    /\ last.func = [type |-> "changeChannel", ch |-> "esr"]
    /\ last.pre.channel = "release"
    /\ value.channel = "esr"
    /\ Len(value.randomNumbers) = 1
    /\ "isWaiting" \in DOMAIN value

\* C18: a dispatched randomizeNumber(id) whose id is in the list gives the
\* entry with that id its new value and changes nothing else of the list:
\* the length, the order, every id and every other entry's value are as before.
C18_RandomizeChangesOneValue ==
    LET f == last.func
        old == last.pre.randomNumbers
        new == value.randomNumbers
    IN  (f.type = "randomizeNumber" /\ f.id \in Ids(old)) =>
            /\ ~last.threw
            /\ Len(new) = Len(old)
            /\ IdsInOrder(new) = IdsInOrder(old)
            /\ \A i \in 1..Len(old) :
                new[i].value = IF old[i].id = f.id THEN randomNumber(f.u)
                               ELSE old[i].value

\* the first of two entries was given a new value
C18_Witness ==
    /\ last.func = [type |-> "randomizeNumber", id |-> 0, u |-> 75]
    /\ IdsInOrder(last.pre.randomNumbers) = <<0, 1>>
    /\ last.pre.randomNumbers[1].value = randomNumber(25)
    /\ value.randomNumbers[1].value = randomNumber(75)
    /\ value.randomNumbers[2] = last.pre.randomNumbers[2]

\* the action last dispatched from outside is an atomic one
AtomicDispatched ==
    last.func.type \in {"changeChannel", "changeOS", "clearRandomNumbers",
                        "addRandomNumber", "randomizeNumber",
                        "deleteRandomNumber", "setAPIWaitingStatus"}

C21_OverlapLastWriterWins ==
    [][(/\ ndispatched = 2
        /\ last.func.type = "resume"
        /\ pending = 1
        /\ last'.func.type = "resume"
        /\ ndispatched' = 2)
       => (/\ pending' = 0
           /\ IdsInOrder(value'.randomNumbers) =
                  [i \in 1..NumRequested |-> i - 1]
           /\ ~isWaiting(value'))]_vars

\* the state the callback s was called with last
LastTold(calls, s) ==
    calls[CHOOSE i \in 1..Len(calls) :
            calls[i].to = s /\ \A j \in (i + 1)..Len(calls) : calls[j].to # s].state

C23_IdsIncreaseAlongList ==
    LET arr == value.randomNumbers
        n == Len(arr)
    IN  /\ \A i \in 1..(n - 1) : arr[i].id < arr[i + 1].id
        /\ last.func.type = "addRandomNumber" =>
            /\ n = Len(last.pre.randomNumbers) + 1
            /\ arr[n].id = IF n = 1 THEN 0 ELSE arr[n - 1].id + 1

\* an entry was added to a list that a routine had filled and that an entry
\* had been deleted from
C23_Witness ==
    /\ last.func.type = "addRandomNumber"
    /\ IdsInOrder(value.randomNumbers) = <<0, 2, 3, 4, 5, 6, 7, 8, 9, 10>>

\* C24: with setAPIWaitingStatus dispatched by the routines only, isWaiting
\* is true in every state in which a requestNewNumbersFromAPI routine has
\* started and has not completed.
C24_WaitingWhileRoutineInFlight == pending > 0 => isWaiting(value)

\* C25: a dispatch of addRandomNumber, randomizeNumber, deleteRandomNumber,
\* clearRandomNumbers or setAPIWaitingStatus, and a routine with all its
\* dispatches, leave the queryString value as it was and push no url; a
\* dispatch pushes a url only when os or channel is not what it was.
C25_UrlFollowsProjectionOnly ==
    /\ last.func.type \in {"addRandomNumber", "randomizeNumber",
                            "deleteRandomNumber", "clearRandomNumbers",
                            "setAPIWaitingStatus", "requestNewNumbersFromAPI",
                            "resume"} =>
        /\ views.queryString = queryString(serverParams(last.pre))
        /\ last.urls = <<>>
    /\ (last.func.type # "init" /\ last.urls # <<>>) =>
        /\ serverParams(value) # serverParams(last.pre)
        /\ last.urls = <<"?" \o views.queryString>>

\* the url had followed a change of the channel, and a routine then resumed,
\* made its eleven dispatches and pushed nothing
C25_Witness ==
    /\ last.func.type = "resume"
    /\ last.pre.channel = "esr"
    /\ views.queryString = "channel=esr&os=mac"
    /\ Len(value.randomNumbers) = NumRequested
    /\ last.urls = <<>>

====
